---- MODULE Spec2Model ----
(***************************************************************************)
(* A model of the Chord ring store (src/src/chord.rs) and of the key-event *)
(* loop that drives it (src/src/main.rs).                                  *)
(*                                                                         *)
(* The ring is the BTreeMap<u16, Node> of the source: a function from the  *)
(* keys present to Node records.  MAX_ID keeps the value of the source     *)
(* (64), so the rings TLC visits are the ones within a bounded number of   *)
(* successful add_node calls of a few seed rings, each of which the        *)
(* program reaches from Chord::new() by add_node calls alone.              *)
(***************************************************************************)
EXTENDS Integers, Sequences, FiniteSets, TLC

VARIABLES
    nodes,            \* Chord.nodes : BTreeMap<u16, Node>
    ret,              \* the last store call: its name, argument and Result
    adds,             \* successful add_node calls of the store's caller so far
    removed,          \* ids delete_node removed since the last successful add_node
    live,             \* ids add_node has returned and delete_node has not removed since
    pc,               \* position inside add_node, for the stepwise run
    new_id,           \* the local new_id of add_node, for the stepwise run
    app,              \* App::run: "new", "running", "quit" or "panicked"
    input,            \* App.input, a sequence of characters
    character_index,  \* App.character_index
    input_mode,       \* App.input_mode
    result            \* App.result, the message shown to the user

chordVars == <<nodes, ret, adds, removed, live, pc, new_id>>

appVars == <<app, input, character_index, input_mode, result>>

vars == <<nodes, ret, adds, removed, live, pc, new_id, app, input, character_index, input_mode, result>>

----------------------------------------------------------------------------
(* Constants of the program and bounds of the model *)

MAX_ID == 64

U16_MAX == 65535

\* successful add_node calls explored from each seed ring
MaxAdds == 1

U16 == 0..U16_MAX

Ids == 0..(MAX_ID - 1)

----------------------------------------------------------------------------
(* Result<T, ChordError>.  A value is a record whose field names its type, *)
(* so that values of different types are unequal rather than incomparable  *)

\* a u16 returned by value
U16Val(i) == [u16 |-> i]

\* a Vec<&u16>
VecVal(s) == [vec |-> s]

Ok(v) == [ok |-> TRUE, err |-> "None", val |-> {v}]

OkUnit == [ok |-> TRUE, err |-> "None", val |-> {}]

Err(e) == [ok |-> FALSE, err |-> e, val |-> {}]

ChordError == {"NoNodesExist", "NodeDoesNotExist", "RingIsFull", "OutOfRange"}

----------------------------------------------------------------------------
(* Node and the BTreeMap operations the store uses *)

Node(i) == [id |-> i]

new == [k \in {} |-> Node(0)]

keys(n) == DOMAIN n

len(n) == Cardinality(DOMAIN n)

is_empty(n) == DOMAIN n = {}

contains_key(n, k) == k \in DOMAIN n

insert(n, k, v) == [x \in (DOMAIN n) \cup {k} |-> IF x = k THEN v ELSE n[x]]

\* split_off(&k) for remove(&k): the entries at and after k all leave
remove_split(n, k) == [x \in {j \in DOMAIN n : j < k} |-> n[x]]

remove(n, k) == [x \in (DOMAIN n) \ {k} |-> n[x]]

Min(S) == CHOOSE m \in S : \A x \in S : m <= x

\* a range that leaves its lower end out: (key..) taken as exclusive
range_from_next_strict(n, key) ==
    LET R == {k \in DOMAIN n : k > key}
    IN  IF R = {} THEN {} ELSE {n[Min(R)]}

Max(S) == CHOOSE m \in S : \A x \in S : m >= x

\* the wrong end of the range: next_back() for next()
range_from_next_back(n, key) ==
    LET R == {k \in DOMAIN n : k >= key}
    IN  IF R = {} THEN {} ELSE {n[Max(R)]}

\* nodes.range(key..).next(): the entry with the least key >= key, if any
range_from_next(n, key) ==
    LET R == {k \in DOMAIN n : k >= key}
    IN  IF R = {} THEN {} ELSE {n[Min(R)]}

\* the wrong end of the iterator: next_back() for next()
iter_next_back(n) == IF DOMAIN n = {} THEN {} ELSE {n[Max(DOMAIN n)]}

\* nodes.iter().next(): the entry with the least key
iter_next(n) == IF DOMAIN n = {} THEN {} ELSE {n[Min(DOMAIN n)]}

RECURSIVE Ascending(_)
Ascending(S) ==
    IF S = {} THEN <<>>
    ELSE LET m == Min(S) IN <<m>> \o Ascending(S \ {m})

----------------------------------------------------------------------------
(* The four operations of Chord *)

\* a draw from 0..MAX_ID - 1, which leaves the last id out
gen_range_short == 0..(MAX_ID - 2)

\* rng.gen_range(0..MAX_ID)
gen_range == 0..(MAX_ID - 1)

\* add_node without its while loop: the first draw is inserted as it is
add_node_unchecked(n) ==
    IF len(n) = MAX_ID
    THEN {[nodes |-> n, res |-> Err("RingIsFull")]}
    ELSE {[nodes |-> insert(n, i, Node(i)), res |-> Ok(U16Val(i))] : i \in gen_range}

\* add_node whose capacity test is off by one
add_node_early_full(n) ==
    IF len(n) >= MAX_ID - 1
    THEN {[nodes |-> n, res |-> Err("RingIsFull")]}
    ELSE {[nodes |-> insert(n, i, Node(i)), res |-> Ok(U16Val(i))] :
             i \in {c \in gen_range : ~contains_key(n, c)}}

\* add_node that returns the position of the new node, not its id
add_node_returns_len(n) ==
    IF len(n) = MAX_ID
    THEN {[nodes |-> n, res |-> Err("RingIsFull")]}
    ELSE {[nodes |-> insert(n, i, Node(i)), res |-> Ok(U16Val(len(n)))] :
             i \in {c \in gen_range : ~contains_key(n, c)}}

\* add_node: every outcome of the call, one per id the loop can leave with
add_node(n) ==
    IF len(n) = MAX_ID
    THEN {[nodes |-> n, res |-> Err("RingIsFull")]}
    ELSE {[nodes |-> insert(n, i, Node(i)), res |-> Ok(U16Val(i))] :
             i \in {c \in gen_range : ~contains_key(n, c)}}

\* delete_node that tests for an empty ring first, as search does
delete_node_guarded(n, id) ==
    IF is_empty(n)
    THEN [nodes |-> n, res |-> Err("NoNodesExist")]
    ELSE IF contains_key(n, id)
    THEN [nodes |-> remove(n, id), res |-> OkUnit]
    ELSE [nodes |-> n, res |-> Err("NodeDoesNotExist")]

\* delete_node that looks the node up without removing it
delete_node_keep(n, id) ==
    IF contains_key(n, id)
    THEN [nodes |-> n, res |-> OkUnit]
    ELSE [nodes |-> n, res |-> Err("NodeDoesNotExist")]

\* delete_node that checks the range of its argument as search does
delete_node_ranged(n, id) ==
    IF id >= MAX_ID THEN [nodes |-> n, res |-> Err("OutOfRange")]
    ELSE IF contains_key(n, id)
    THEN [nodes |-> remove(n, id), res |-> OkUnit]
    ELSE [nodes |-> n, res |-> Err("NodeDoesNotExist")]

delete_node(n, id) ==
    IF contains_key(n, id)
    THEN [nodes |-> remove(n, id), res |-> OkUnit]
    ELSE [nodes |-> n, res |-> Err("NodeDoesNotExist")]

\* search with its two checks in the other order
search_range_first(n, key) ==
    IF key >= MAX_ID THEN Err("OutOfRange")
    ELSE IF is_empty(n) THEN Err("NoNodesExist")
    ELSE IF range_from_next(n, key) # {}
         THEN [ok |-> TRUE, err |-> "None", val |-> range_from_next(n, key)]
         ELSE [ok |-> TRUE, err |-> "None", val |-> iter_next(n)]

\* search whose range check lets MAX_ID itself through
search_max_inclusive(n, key) ==
    IF is_empty(n) THEN Err("NoNodesExist")
    ELSE IF key > MAX_ID THEN Err("OutOfRange")
    ELSE IF range_from_next(n, key) # {}
         THEN [ok |-> TRUE, err |-> "None", val |-> range_from_next(n, key)]
         ELSE [ok |-> TRUE, err |-> "None", val |-> iter_next(n)]

search(n, key) ==
    IF is_empty(n) THEN Err("NoNodesExist")
    ELSE IF key >= MAX_ID THEN Err("OutOfRange")
    ELSE IF range_from_next(n, key) # {}
         THEN [ok |-> TRUE, err |-> "None", val |-> range_from_next(n, key)]
         ELSE [ok |-> TRUE, err |-> "None", val |-> iter_next(n)]

\* a sequence back to front
Reversed(q) == [i \in 1..Len(q) |-> q[Len(q) + 1 - i]]

\* get_ring over keys().rev()
get_ring_reversed(n) == Reversed(Ascending(keys(n)))

get_ring(n) == Ascending(keys(n))

----------------------------------------------------------------------------
(* The store driven by an arbitrary caller *)

Ring(S) == [k \in S |-> Node(k)]

\* rings the program reaches from Chord::new() by add_node calls alone
SeedRings == {new, Ring({5, 20, 50}), Ring(Ids)}

\* ids and keys a caller passes: members and non-members, both sides of MAX_ID
DeleteArgs == {0, 5, 63, MAX_ID, U16_MAX}

SearchKeys == {0, 5, 6, 20, 21, 50, 51, 60, 63, MAX_ID, MAX_ID + 1, U16_MAX}

Call(op, arg, res) == [op |-> op, arg |-> arg, res |-> res]

\* the id a call returned, if it was a successful add_node
AddedId(r) == IF r.op = "add_node" THEN {v.u16 : v \in r.res.val} ELSE {}

\* format!(..): the format string, its integer arguments, a {:?} argument
Message(fmt, args, dbg) == [fmt |-> fmt, args |-> args, dbg |-> dbg]

NoMessage == Message("", <<>>, "")

\* App::new()
AppNew ==
    /\ app = "new"
    /\ input = <<>>
    /\ character_index = 0
    /\ input_mode = "Normal"
    /\ result = NoMessage

Init ==
    /\ nodes \in SeedRings
    /\ ret = Call("new", {}, OkUnit)
    /\ adds = 0
    /\ removed = {}
    /\ live = keys(nodes)
    /\ pc = "idle"
    /\ new_id = 0
    /\ AppNew

AddNode ==
    /\ pc = "idle"
    /\ adds < MaxAdds \/ len(nodes) = MAX_ID
    /\ \E out \in add_node(nodes) :
          /\ nodes' = out.nodes
          /\ ret' = Call("add_node", {}, out.res)
          /\ adds' = IF out.res.ok THEN adds + 1 ELSE adds
          /\ removed' = IF out.res.ok THEN {} ELSE removed
          /\ live' = live \cup {v.u16 : v \in out.res.val}
    /\ UNCHANGED <<pc, new_id>>
    /\ UNCHANGED appVars

DeleteNode ==
    /\ pc = "idle"
    /\ \E id \in DeleteArgs :
          /\ nodes' = delete_node(nodes, id).nodes
          /\ ret' = Call("delete_node", {id}, delete_node(nodes, id).res)
          /\ removed' = IF delete_node(nodes, id).res.ok THEN removed \cup {id} ELSE removed
          /\ live' = IF delete_node(nodes, id).res.ok THEN live \ {id} ELSE live
    /\ UNCHANGED <<adds, pc, new_id>>
    /\ UNCHANGED appVars

\* a search that creates the node it does not find under the key
Search_creating ==
    /\ pc = "idle"
    /\ \E key \in SearchKeys \cup AddedId(ret) :
          /\ ret' = Call("search", {key}, search(nodes, key))
          /\ nodes' = IF key < MAX_ID /\ ~contains_key(nodes, key)
                      THEN insert(nodes, key, Node(key))
                      ELSE nodes
    /\ UNCHANGED <<adds, removed, live, pc, new_id>>
    /\ UNCHANGED appVars

\* a caller may also look up the id add_node has just returned
Search ==
    /\ pc = "idle"
    /\ \E key \in SearchKeys \cup AddedId(ret) :
          ret' = Call("search", {key}, search(nodes, key))
    /\ UNCHANGED <<nodes, adds, removed, live, pc, new_id>>
    /\ UNCHANGED appVars

GetRing ==
    /\ pc = "idle"
    /\ ret' = Call("get_ring", {}, Ok(VecVal(get_ring(nodes))))
    /\ UNCHANGED <<nodes, adds, removed, live, pc, new_id>>
    /\ UNCHANGED appVars

Next == AddNode \/ DeleteNode \/ Search \/ GetRing

Spec == Init /\ [][Next]_vars

----------------------------------------------------------------------------
(* add_node one statement at a time: the capacity test and the first draw, *)
(* the while loop that draws again on a collision, and the insertion       *)

AddNodeEnter ==
    /\ pc = "idle"
    /\ adds < MaxAdds \/ len(nodes) = MAX_ID
    /\ IF len(nodes) = MAX_ID
       THEN /\ ret' = Call("add_node", {}, Err("RingIsFull"))
            /\ UNCHANGED <<pc, new_id>>
       ELSE /\ new_id' \in gen_range
            /\ pc' = "add_loop"
            /\ UNCHANGED ret
    /\ UNCHANGED <<nodes, adds, removed, live>>
    /\ UNCHANGED appVars

\* a loop body that draws c and forgets to assign it
Resample_stuck(c) ==
    /\ pc = "add_loop"
    /\ contains_key(nodes, new_id)
    /\ c \in gen_range
    /\ new_id' = new_id
    /\ UNCHANGED <<nodes, ret, adds, removed, live, pc>>
    /\ UNCHANGED appVars

\* the loop body, drawing candidate c
Resample(c) ==
    /\ pc = "add_loop"
    /\ contains_key(nodes, new_id)
    /\ new_id' = c
    /\ UNCHANGED <<nodes, ret, adds, removed, live, pc>>
    /\ UNCHANGED appVars

AddNodeLoop == \E c \in gen_range : Resample(c)

AddNodeInsert ==
    /\ pc = "add_loop"
    /\ ~contains_key(nodes, new_id)
    /\ nodes' = insert(nodes, new_id, Node(new_id))
    /\ ret' = Call("add_node", {}, Ok(U16Val(new_id)))
    /\ adds' = adds + 1
    /\ removed' = {}
    /\ live' = live \cup {new_id}
    /\ pc' = "idle"
    /\ UNCHANGED new_id
    /\ UNCHANGED appVars

NextLoop == AddNodeEnter \/ AddNodeLoop \/ AddNodeInsert \/ DeleteNode

\* the loop body drawing an id that is not a member
DrawFree == \E c \in gen_range : Resample(c) /\ ~contains_key(nodes, c)

\* the program keeps running, and the generator is fair: every id of the
\* range is eventually drawn, so a free one is, as long as there is one
FairLoop ==
    /\ WF_vars(AddNodeInsert)
    /\ WF_vars(DrawFree)

SpecLoop == Init /\ [][NextLoop]_vars /\ FairLoop

----------------------------------------------------------------------------
(* str::parse::<u16>() as App uses it: Some(n) is {n}, None is {} *)

Digits == {"0", "1", "2", "3", "4", "5", "6", "7", "8", "9"}

DigitVal(c) ==
    CASE c = "0" -> 0 [] c = "1" -> 1 [] c = "2" -> 2 [] c = "3" -> 3
      [] c = "4" -> 4 [] c = "5" -> 5 [] c = "6" -> 6 [] c = "7" -> 7
      [] c = "8" -> 8 [] c = "9" -> 9

RECURSIVE Decimal(_)
Decimal(s) ==
    IF s = <<>> THEN 0
    ELSE 10 * Decimal(SubSeq(s, 1, Len(s) - 1)) + DigitVal(s[Len(s)])

parse_u16(s) ==
    IF s = <<>> THEN {}
    ELSE LET digits == IF Head(s) = "+" THEN Tail(s) ELSE s
         IN  IF digits = <<>> THEN {}
             ELSE IF \E i \in 1..Len(digits) : digits[i] \notin Digits THEN {}
             ELSE IF Decimal(digits) > U16_MAX THEN {}
             ELSE {Decimal(digits)}

\* a fallback of u16::MAX for the fallback of 0
parse_or_max(s) == IF parse_u16(s) = {} THEN U16_MAX ELSE CHOOSE n \in parse_u16(s) : TRUE

\* match self.input.parse().ok() { Some(num) => num, None => 0 }
parse_or_zero(s) == IF parse_u16(s) = {} THEN 0 ELSE CHOOSE n \in parse_u16(s) : TRUE

----------------------------------------------------------------------------
(* The editing helpers of App *)

count(s) == Len(s)

clamp_cursor(s, pos) == IF pos < 0 THEN 0 ELSE IF pos > count(s) THEN count(s) ELSE pos

\* every character typed here is one byte long
byte_index(s, ci) == IF ci < count(s) THEN ci ELSE Len(s)

saturating_sub(a, b) == IF a < b THEN 0 ELSE a - b

----------------------------------------------------------------------------
(* App::run: the start-up add_node and one action per arm of the key match *)
(* that changes the state; a key event no arm handles leaves it unchanged   *)

KeyEventKind == {"Press", "Release"}

\* characters typed into the input box
AppChars == {"0", "6", "x"}

\* longest input typed
MaxInput == 2

\* most members the ring holds when 'a' is pressed
MaxAppRing == 1

InitApp ==
    /\ nodes = new
    /\ ret = Call("new", {}, OkUnit)
    /\ adds = 0
    /\ removed = {}
    /\ live = {}
    /\ pc = "idle"
    /\ new_id = 0
    /\ AppNew

Editing(kind) ==
    /\ app = "running"
    /\ input_mode \in {"Searching", "Deleting"}
    /\ kind = "Press"

\* self.chord.add_node().unwrap()
Startup ==
    /\ app = "new"
    /\ \E out \in add_node(nodes) :
          /\ nodes' = out.nodes
          /\ ret' = Call("add_node", {}, out.res)
          /\ app' = IF out.res.ok THEN "running" ELSE "panicked"
          /\ removed' = IF out.res.ok THEN {} ELSE removed
          /\ live' = live \cup {v.u16 : v \in out.res.val}
    /\ UNCHANGED <<adds, pc, new_id, input, character_index, input_mode, result>>

KeySearch ==
    /\ app = "running" /\ input_mode = "Normal"
    /\ input_mode' = "Searching"
    /\ UNCHANGED <<app, input, character_index, result>>
    /\ UNCHANGED chordVars

KeyAdd ==
    /\ app = "running" /\ input_mode = "Normal"
    /\ len(nodes) < MaxAppRing
    /\ \E out \in add_node(nodes) :
          /\ nodes' = out.nodes
          /\ ret' = Call("add_node", {}, out.res)
          /\ result' = IF out.res.ok
                       THEN Message("Node {} added", <<(CHOOSE v \in out.res.val : TRUE).u16>>, "")
                       ELSE Message("Node add error: {:?}", <<>>, out.res.err)
          /\ removed' = IF out.res.ok THEN {} ELSE removed
          /\ live' = live \cup {v.u16 : v \in out.res.val}
    /\ UNCHANGED <<adds, pc, new_id, app, input, character_index, input_mode>>

KeyDelete ==
    /\ app = "running" /\ input_mode = "Normal"
    /\ input_mode' = "Deleting"
    /\ UNCHANGED <<app, input, character_index, result>>
    /\ UNCHANGED chordVars

KeyQuit ==
    /\ app = "running" /\ input_mode = "Normal"
    /\ app' = "quit"
    /\ UNCHANGED <<input, character_index, input_mode, result>>
    /\ UNCHANGED chordVars

submit_query ==
    LET key == parse_or_zero(input)
        r == search(nodes, key)
    IN  /\ ret' = Call("search", {key}, r)
        /\ IF r.ok
           THEN /\ result' = Message("Key {} is located at node: {}",
                                     <<key, (CHOOSE v \in r.val : TRUE).id>>, "")
                /\ input' = <<>>
                /\ character_index' = 0
                /\ UNCHANGED app
           ELSE IF r.err = "OutOfRange"
           THEN /\ result' = Message("Key {} is out of range of the chord ring.", <<key>>, "")
                /\ input' = <<>>
                /\ character_index' = 0
                /\ UNCHANGED app
           ELSE /\ app' = "panicked"
                /\ UNCHANGED <<result, input, character_index>>
        /\ UNCHANGED <<nodes, adds, removed, live, pc, new_id, input_mode>>

submit_deletion ==
    LET node_id == parse_or_zero(input)
        d == delete_node(nodes, node_id)
    IN  /\ nodes' = d.nodes
        /\ ret' = Call("delete_node", {node_id}, d.res)
        /\ removed' = IF d.res.ok THEN removed \cup {node_id} ELSE removed
        /\ live' = IF d.res.ok THEN live \ {node_id} ELSE live
        /\ IF d.res.ok
           THEN /\ result' = Message("Node {} deleted", <<node_id>>, "")
                /\ input' = <<>>
                /\ character_index' = 0
                /\ UNCHANGED app
           ELSE IF d.res.err = "NodeDoesNotExist"
           THEN /\ result' = Message("Node {} does not exist.", <<node_id>>, "")
                /\ input' = <<>>
                /\ character_index' = 0
                /\ UNCHANGED app
           ELSE /\ app' = "panicked"
                /\ UNCHANGED <<result, input, character_index>>
        /\ UNCHANGED <<adds, pc, new_id, input_mode>>

SubmitQuery ==
    /\ \E kind \in KeyEventKind : Editing(kind)
    /\ input_mode = "Searching"
    /\ submit_query

SubmitDeletion ==
    /\ \E kind \in KeyEventKind : Editing(kind)
    /\ input_mode = "Deleting"
    /\ submit_deletion

EnterChar ==
    /\ \E kind \in KeyEventKind : Editing(kind)
    /\ Len(input) < MaxInput
    /\ \E new_char \in AppChars :
          LET index == byte_index(input, character_index)
              inserted == SubSeq(input, 1, index) \o <<new_char>>
                            \o SubSeq(input, index + 1, Len(input))
          IN  /\ input' = inserted
              /\ character_index' = clamp_cursor(inserted, character_index + 1)
    /\ UNCHANGED <<app, input_mode, result>>
    /\ UNCHANGED chordVars

DeleteChar ==
    /\ \E kind \in KeyEventKind : Editing(kind)
    /\ IF character_index # 0
       THEN LET remaining == SubSeq(input, 1, character_index - 1)
                               \o SubSeq(input, character_index + 1, Len(input))
            IN  /\ input' = remaining
                /\ character_index' =
                      clamp_cursor(remaining, saturating_sub(character_index, 1))
       ELSE UNCHANGED <<input, character_index>>
    /\ UNCHANGED <<app, input_mode, result>>
    /\ UNCHANGED chordVars

MoveCursorLeft ==
    /\ \E kind \in KeyEventKind : Editing(kind)
    /\ character_index' = clamp_cursor(input, saturating_sub(character_index, 1))
    /\ UNCHANGED <<app, input, input_mode, result>>
    /\ UNCHANGED chordVars

MoveCursorRight ==
    /\ \E kind \in KeyEventKind : Editing(kind)
    /\ character_index' = clamp_cursor(input, character_index + 1)
    /\ UNCHANGED <<app, input, input_mode, result>>
    /\ UNCHANGED chordVars

KeyEsc ==
    /\ \E kind \in KeyEventKind : Editing(kind)
    /\ input_mode' = "Normal"
    /\ UNCHANGED <<app, input, character_index, result>>
    /\ UNCHANGED chordVars

NextApp ==
    \/ Startup
    \/ KeySearch \/ KeyAdd \/ KeyDelete \/ KeyQuit
    \/ SubmitQuery \/ SubmitDeletion
    \/ EnterChar \/ DeleteChar \/ MoveCursorLeft \/ MoveCursorRight \/ KeyEsc

SpecApp == InitApp /\ [][NextApp]_vars

----------------------------------------------------------------------------
(* The calls of App::run that unwrap a result or match it with a panic arm: *)
(* the add_node at start-up and the two submit handlers. The handlers start *)
(* in the states App::run is in after the user typed a text in one of the   *)
(* editing modes, over rings it reaches with the keys 'a' and 'd'           *)

\* characters typed: digits that spell 65535 and 65536, a letter, a sign;
\* no "0", so that a key or id of 0 comes from the fallback alone
TypedChars == {"3", "5", "6", "x", "+"}

\* longest text typed before Enter
MaxTyped == 5

TypedInputs == UNION {[1..k -> TypedChars] : k \in 0..MaxTyped}

InputRings == {new, Ring({0}), Ring({0, 6}), Ring({6, 60})}

Typed ==
    /\ nodes \in InputRings
    /\ ret = Call("new", {}, OkUnit)
    /\ adds = 0
    /\ removed = {}
    /\ live = keys(nodes)
    /\ pc = "idle"
    /\ new_id = 0
    /\ app = "running"
    /\ input \in TypedInputs
    /\ character_index = Len(input)
    /\ input_mode \in {"Searching", "Deleting"}
    /\ result = NoMessage

InitInput == InitApp \/ Typed

NextInput == Startup \/ SubmitQuery \/ SubmitDeletion

SpecInput == InitInput /\ [][NextInput]_vars

----------------------------------------------------------------------------
(* Properties of the store *)

\* keys a property tries: the whole keyspace, the ids just past it, the
\* largest u16
ProbeKeys == (0..(MAX_ID + 2)) \cup {U16_MAX - 1, U16_MAX}

\* node is the member responsible for key: the member with the least id
\* >= key, or with the least id of all when no member id is >= key
Responsible(n, key, node) ==
    /\ \E k \in DOMAIN n : n[k] = node
    /\ \/ /\ node.id >= key
          /\ \A k \in DOMAIN n : n[k].id >= key => node.id <= n[k].id
       \/ /\ \A k \in DOMAIN n : n[k].id < key
          /\ \A k \in DOMAIN n : node.id <= n[k].id

\* C1: on every reachable non-empty ring, search(key) for every key in
\* [0, MAX_ID) returns the member with the smallest id >= key, or the member
\* with the smallest id overall when no member id is >= key; with members
\* {5, 20, 50}: search(60) = 5, search(6) = 20, search(5) = 5.
C1_SuccessorRouting ==
    /\ ~is_empty(nodes) =>
          \A key \in Ids :
             LET r == search(nodes, key)
             IN  /\ r.ok
                 /\ Cardinality(r.val) = 1
                 /\ \A node \in r.val : Responsible(nodes, key, node)
    /\ (ret.op = "search" /\ ret.res.ok) =>
          \A key \in ret.arg : \A node \in ret.res.val : Responsible(nodes, key, node)
    /\ keys(nodes) = {5, 20, 50} =>
          /\ search(nodes, 60) = Ok(Node(5))
          /\ search(nodes, 6) = Ok(Node(20))
          /\ search(nodes, 5) = Ok(Node(5))

\* a search that wrapped around: key 60 on the ring {5, 20, 50} gave node 5
C1_Witness ==
    /\ keys(nodes) = {5, 20, 50}
    /\ ret = Call("search", {60}, Ok(Node(5)))

\* C2: the stored ids are pairwise distinct and lie in [0, MAX_ID), the ring
\* has between 0 and MAX_ID members, and a successful add_node never returns
\* an id that was a member when it was called.
C2_DistinctIdsInRange ==
    /\ [](/\ \A k \in DOMAIN nodes : k \in Ids /\ nodes[k].id \in Ids
          /\ \A j, k \in DOMAIN nodes : j # k => nodes[j].id # nodes[k].id
          /\ len(nodes) >= 0 /\ len(nodes) <= MAX_ID)
    /\ [][(AddNode /\ ret'.res.ok) =>
             \A id \in AddedId(ret') : ~contains_key(nodes, id) /\ contains_key(nodes', id)]_vars

\* an add_node that succeeded on a ring that already had members
C2_Witness ==
    /\ ret.op = "add_node" /\ ret.res.ok
    /\ AddedId(ret) # {} /\ AddedId(ret) \subseteq keys(nodes)
    /\ len(nodes) > 1

\* C3: add_node fails with RingIsFull exactly when the ring has MAX_ID
\* members at the call, a failing add_node leaves the ring unchanged, and
\* add_node succeeds whenever the ring has fewer than MAX_ID members.
C3_BoundedCapacity ==
    [][AddNode =>
          /\ (ret'.res = Err("RingIsFull")) <=> (len(nodes) = MAX_ID)
          /\ ret'.res.ok <=> (len(nodes) < MAX_ID)
          /\ ~ret'.res.ok => nodes' = nodes]_vars

\* the ring was filled by a successful add_node and the next add_node failed
C3_Witness ==
    /\ adds > 0
    /\ len(nodes) = MAX_ID
    /\ ret = Call("add_node", {}, Err("RingIsFull"))

\* C4: when add_node has returned id x, a search(x) that follows it
\* immediately succeeds and resolves to the node with id x.
C4_AddThenSearch ==
    [][(ret.op = "add_node" /\ ret.res.ok /\ ret'.op = "search" /\ ret'.arg = AddedId(ret)) =>
          /\ ret'.res.ok
          /\ ret'.res.val # {}
          /\ \A node \in ret'.res.val : {node.id} = AddedId(ret)]_vars

\* a search for an id no caller passes but the one add_node has just
\* returned, resolved to the node with that id
C4_Witness ==
    /\ ret.op = "search" /\ ret.res.ok
    /\ ret.arg \cap SearchKeys = {}
    /\ \A node \in ret.res.val : {node.id} = ret.arg
    /\ adds > 0

\* the elements of a sequence
Elems(q) == {q[i] : i \in 1..Len(q)}

\* C5: after delete_node(x) succeeds, get_ring() no longer contains x and
\* every other member is still present; a later delete_node(x), with no
\* add_node in between, fails with NodeDoesNotExist.
C5_DeleteCorrect ==
    /\ [][(DeleteNode /\ ret'.res.ok) =>
             \A x \in ret'.arg :
                /\ x \in Elems(get_ring(nodes))
                /\ x \notin Elems(get_ring(nodes'))
                /\ \A k \in keys(nodes) \ {x} : contains_key(nodes', k) /\ nodes'[k] = nodes[k]]_vars
    /\ [][(DeleteNode /\ ret'.arg \subseteq removed) =>
             ret'.res = Err("NodeDoesNotExist") /\ nodes' = nodes]_vars
    /\ [](\A x \in removed : delete_node(nodes, x).res = Err("NodeDoesNotExist"))

\* the second delete_node of an id, other calls but no add_node since the
\* first, failed with NodeDoesNotExist on a ring that still has members
C5_Witness ==
    /\ ret.op = "delete_node"
    /\ ret.res = Err("NodeDoesNotExist")
    /\ ret.arg # {} /\ ret.arg \subseteq removed
    /\ Cardinality(removed) > 1
    /\ ~is_empty(nodes)

\* C6: delete_node(id) fails with NodeDoesNotExist exactly when id is not a
\* member, whatever the id (ids >= MAX_ID included), and then leaves the
\* ring unchanged; it returns no other error.
C6_DeleteAbsent ==
    /\ [][DeleteNode =>
             \A id \in ret'.arg :
                /\ ~ret'.res.ok <=> ~contains_key(nodes, id)
                /\ ~ret'.res.ok => (ret'.res.err = "NodeDoesNotExist" /\ nodes' = nodes)]_vars
    /\ [](\A id \in ProbeKeys :
             /\ ~delete_node(nodes, id).res.ok <=> id \notin keys(nodes)
             /\ ~delete_node(nodes, id).res.ok =>
                   /\ delete_node(nodes, id).res = Err("NodeDoesNotExist")
                   /\ delete_node(nodes, id).nodes = nodes)

\* delete_node of the largest u16 failed on a ring that has members
C6_Witness ==
    /\ ret = Call("delete_node", {U16_MAX}, Err("NodeDoesNotExist"))
    /\ ~is_empty(nodes)

\* C7: on a ring with no members search(key) fails with NoNodesExist for
\* every key, keys >= MAX_ID included, and never with OutOfRange.
C7_EmptyRingFirst ==
    /\ is_empty(nodes) => \A key \in U16 : search(nodes, key) = Err("NoNodesExist")
    /\ (is_empty(nodes) /\ ret.op = "search") => ret.res = Err("NoNodesExist")

\* a search for a key past the keyspace on the emptied ring
C7_Witness ==
    /\ is_empty(nodes)
    /\ ret = Call("search", {U16_MAX}, Err("NoNodesExist"))

\* C8: on a ring with members search(key) fails with OutOfRange for every
\* key >= MAX_ID, MAX_ID itself included, and for no key < MAX_ID.
C8_RangeValidation ==
    /\ ~is_empty(nodes) =>
          \A key \in ProbeKeys :
             (search(nodes, key) = Err("OutOfRange")) <=> (key >= MAX_ID)
    /\ (~is_empty(nodes) /\ ret.op = "search") =>
          \A key \in ret.arg : (ret.res = Err("OutOfRange")) <=> (key >= MAX_ID)

\* a search for the key MAX_ID on a ring with members
C8_Witness ==
    /\ ~is_empty(nodes)
    /\ ret = Call("search", {MAX_ID}, Err("OutOfRange"))

\* C9: a search submitted while the ring is empty shows the user a message
\* for NoNodesExist and App::run keeps running: the error is never fatal.
C9_EmptySearchNotFatal ==
    (ret.op = "search" /\ ret.res = Err("NoNodesExist")) => app = "running"

\* C10: add_node terminates: whenever the ring is not full, the loop of
\* add_node eventually draws a free id and returns it, the generator being
\* fair.
C10_AddNodeTerminates ==
    (pc = "add_loop" /\ len(nodes) < MAX_ID) ~>
        (pc = "idle" /\ ret.op = "add_node" /\ ret.res.ok /\ AddedId(ret) \subseteq keys(nodes))

\* the loop of add_node on a ring with one free id, after a draw that
\* collided with a member
C10_Witness ==
    /\ pc = "add_loop"
    /\ len(nodes) = MAX_ID - 1
    /\ contains_key(nodes, new_id)

\* C11: search and get_ring are pure reads: whatever the key and the ring,
\* and whether the call succeeds or fails, the ring after the call is the
\* ring before it; they create and destroy no node.
C11_PureReads ==
    [][ret'.op \in {"search", "get_ring"} => nodes' = nodes]_vars

\* a failed search, for a key past the keyspace, on a ring add_node has
\* extended
C11_Witness ==
    /\ ret = Call("search", {MAX_ID + 1}, Err("OutOfRange"))
    /\ adds > 0
    /\ len(nodes) > 1

\* C12: the members of the ring are exactly the ids successful add_node
\* calls returned and no successful delete_node naming them has removed
\* since: a node appears only as the id a successful add_node returns and
\* disappears only by a successful delete_node of its id, so the ring is
\* empty only before the first insertion or after every node was removed.
C12_Lifecycle ==
    /\ [](keys(nodes) = live)
    /\ [](is_empty(nodes) => (live = {} /\ (adds = 0 \/ removed # {})))
    /\ [][/\ \A k \in keys(nodes') \ keys(nodes) :
                ret' = Call("add_node", {}, Ok(U16Val(k)))
          /\ \A k \in keys(nodes) \ keys(nodes') :
                ret' = Call("delete_node", {k}, OkUnit)]_vars

\* the ring emptied again: an add_node into the empty ring, then the
\* delete_node of the id it returned
C12_Witness ==
    /\ adds > 0
    /\ removed # {}
    /\ is_empty(nodes)
    /\ live = {}

\* C13: get_ring() returns exactly the ids of the members, each once, in
\* strictly ascending order, in every reachable state (the empty sequence
\* for the empty ring), and never fails.
C13_GetRingAscending ==
    LET ring == get_ring(nodes)
    IN  /\ Len(ring) = len(nodes)
        /\ {ring[i] : i \in 1..Len(ring)} = {nodes[k].id : k \in keys(nodes)}
        /\ \A i \in 1..(Len(ring) - 1) : ring[i] < ring[i + 1]
        /\ is_empty(nodes) => ring = <<>>
        /\ ret.op = "get_ring" => ret.res = Ok(VecVal(ring))

\* get_ring called on a ring of several members that add_node has extended
C13_Witness ==
    /\ ret.op = "get_ring" /\ ret.res.ok
    /\ adds > 0
    /\ \E v \in ret.res.val : Len(v.vec) > 1 /\ Len(v.vec) = len(nodes)

\* C15: a successful add_node is one insertion: the ring after it is the
\* ring before it plus exactly the returned id, so the count grows by one
\* and every earlier member stays; a successful delete_node(x) removes
\* exactly x, so the count shrinks by one.
C15_SingleInsertRemove ==
    /\ [][(ret'.op = "add_node" /\ ret'.res.ok) =>
             /\ Cardinality(AddedId(ret')) = 1
             /\ keys(nodes') = keys(nodes) \cup AddedId(ret')
             /\ len(nodes') = len(nodes) + 1
             /\ \A k \in keys(nodes) : nodes'[k] = nodes[k]]_vars
    /\ [][(ret'.op = "delete_node" /\ ret'.res.ok) =>
             /\ keys(nodes') = keys(nodes) \ ret'.arg
             /\ len(nodes') = len(nodes) - 1
             /\ \A k \in keys(nodes') : nodes'[k] = nodes[k]]_vars

\* a delete_node that took the least member out of a ring add_node had
\* just filled: the 63 members above it stayed
C15_Witness ==
    /\ ret = Call("delete_node", {0}, OkUnit)
    /\ adds > 0
    /\ keys(nodes) = Ids \ {0}

\* C16: an input that does not parse as a u16 (empty, not numeric, or
\* larger than 65535) reaches the store as 0: submitted in Deleting mode it
\* deletes node 0 when node 0 is a member, and submitted in Searching mode
\* on a ring with members it resolves key 0 and reports no OutOfRange.
C16_UnparsableIsZero ==
    [][((SubmitQuery \/ SubmitDeletion) /\
           (\/ input = <<>>
            \/ \E i \in 1..Len(input) : input[i] \notin (Digits \cup {"+"})
            \/ ((\A i \in 1..Len(input) : input[i] \in Digits) /\ Decimal(input) > U16_MAX)
            \/ parse_u16(input) = {})) =>
          /\ ret'.arg = {0}
          /\ (input_mode = "Deleting" /\ contains_key(nodes, 0)) =>
                /\ ret' = Call("delete_node", {0}, OkUnit)
                /\ nodes' = remove(nodes, 0)
                /\ result' = Message("Node {} deleted", <<0>>, "")
          /\ (input_mode = "Searching" /\ ~is_empty(nodes)) =>
                /\ ret'.res.ok
                /\ \E node \in ret'.res.val :
                      /\ Responsible(nodes, 0, node)
                      /\ result' = Message("Key {} is located at node: {}", <<0, node.id>>, "")]_vars

\* node 0 deleted by a text that was not a number: no typed text spells 0
C16_Witness ==
    /\ ret = Call("delete_node", {0}, OkUnit)
    /\ result = Message("Node {} deleted", <<0>>, "")
    /\ keys(nodes) = {6}
    /\ input = <<>>

\* clockwise distance from key to id on the ring of MAX_ID positions
ClockwiseDistance(id, key) == (id - key) % MAX_ID

\* C17: on every non-empty ring and for every key in [0, MAX_ID), the node
\* search(key) returns is the one member whose clockwise distance
\* (id - key) mod MAX_ID is least: every other member is strictly farther.
C17_ModularSuccessor ==
    /\ ~is_empty(nodes) =>
          \A key \in Ids :
             LET r == search(nodes, key)
             IN  /\ r.ok
                 /\ \A node \in r.val :
                       /\ node.id \in keys(nodes)
                       /\ \A k \in keys(nodes) \ {node.id} :
                             ClockwiseDistance(node.id, key) < ClockwiseDistance(nodes[k].id, key)
    /\ (ret.op = "search" /\ ret.res.ok) =>
          \A key \in ret.arg : \A node \in ret.res.val :
             \A k \in keys(nodes) \ {node.id} :
                ClockwiseDistance(node.id, key) < ClockwiseDistance(nodes[k].id, key)

\* a search that wrapped past the largest member to the smallest one
C17_Witness ==
    /\ keys(nodes) = {5, 20, 50}
    /\ ret = Call("search", {51}, Ok(Node(5)))

\* C18: on a ring of MAX_ID - 1 members add_node has one outcome: it returns
\* the one id of [0, MAX_ID) that is not a member and the ring is full again;
\* so the add_node that follows delete_node(x) on the full ring returns x.
C18_LastFreeId ==
    /\ [](len(nodes) = MAX_ID - 1 =>
            /\ Cardinality(add_node(nodes)) = 1
            /\ \A out \in add_node(nodes) :
                  /\ out.res.ok
                  /\ {v.u16 : v \in out.res.val} = Ids \ keys(nodes)
                  /\ keys(out.nodes) = Ids)
    /\ [][(AddNode /\ len(nodes) = MAX_ID - 1 /\ ret.op = "delete_node" /\ ret.res.ok) =>
             /\ ret'.res.ok
             /\ AddedId(ret') = ret.arg
             /\ keys(nodes') = Ids]_vars

\* the full ring, restored by the add_node that followed a deletion from it
C18_Witness ==
    /\ len(nodes) = MAX_ID
    /\ ret.op = "add_node" /\ ret.res.ok
    /\ adds > 0
    /\ removed = {}

\* C19: submit_deletion never panics, since delete_node returns only Ok or
\* NodeDoesNotExist, and the add_node().unwrap() at the start of App::run
\* never panics, since the ring is empty there: the only call after which
\* the application has panicked is a search.
C19_DeletionAndStartupSafe ==
    /\ [](app = "panicked" => ret.op = "search")
    /\ [][SubmitDeletion =>
             /\ app' = "running"
             /\ ret'.op = "delete_node"
             /\ ret'.res \in {OkUnit, Err("NodeDoesNotExist")}]_vars
    /\ [][Startup =>
             /\ is_empty(nodes)
             /\ ret'.op = "add_node" /\ ret'.res.ok
             /\ app' = "running"]_vars

\* the deletion of id 65535 submitted on the empty ring, reported and survived
C19_Witness ==
    /\ app = "running"
    /\ is_empty(nodes)
    /\ ret = Call("delete_node", {U16_MAX}, Err("NodeDoesNotExist"))
    /\ result = Message("Node {} does not exist.", <<U16_MAX>>, "")

====
